---- MODULE Spec2Model ----
(***************************************************************************)
(* Model of src/main.py: the asyncio pipeline                              *)
(*   planning call -> k section tasks (gather) -> assembly of the skeleton *)
(*   -> M image tasks (gather) -> session close.                           *)
(* Strings are sequences of tokens; the markup characters < > & ; and the  *)
(* letters of the entities are tokens of their own, other text is opaque.  *)
(* Section names are numbers; ToString gives their text.  Python indexes   *)
(* are 0-based, sequences here 1-based.  Whitespace added by prettify is   *)
(* left out.                                                               *)
(***************************************************************************)
EXTENDS Integers, Sequences, FiniteSets, TLC

\* ------------------------------------------------------------------ bounds
\* most prompts of a Plan, and most section nodes of its skeleton
MaxSections == 2
\* most prompts of a Plan in the dispatch specification
MaxDispatch == 4
\* longest text given to the unescape pass in the unescape specification
MaxLen == 5

\* ------------------------------------------------------- program constants
\* main.py:17  range(3): number of worker clients
PoolSize == 3

\* Python's None where a string is expected (css_code, js_code)
NULL == <<"None">>

\* main.py:17  the credential pool, one client per GEMINI_API_KEY_<i>
worker_clients_init == [c \in 1..PoolSize |-> c - 1]

\* ------------------------------------------------------------ pure helpers
RECURSIVE Concat(_)
Concat(ss) == IF ss = <<>> THEN <<>> ELSE Head(ss) \o Concat(Tail(ss))

\* str.replace(pat, rep): leftmost non-overlapping occurrences
RECURSIVE Replace(_, _, _)
Replace(s, pat, rep) ==
  IF Len(s) < Len(pat) THEN s
  ELSE IF SubSeq(s, 1, Len(pat)) = pat
       THEN rep \o Replace(SubSeq(s, Len(pat) + 1, Len(s)), pat, rep)
       ELSE <<Head(s)>> \o Replace(Tail(s), pat, rep)

LT == <<"&", "l", "t", ";">>
GT == <<"&", "g", "t", ";">>
AMP == <<"&", "a", "m", "p", ";">>

\* the second replace written with the wrong entity
UnescapeTypo(s) == Replace(Replace(s, LT, <<"<">>), GT, LT)

\* main.py:154  output.replace("&lt;", "<").replace("&gt;", ">")
Unescape(s) == Replace(Replace(s, LT, <<"<">>), GT, <<">">>)

\* bs4 output formatter (minimal): text nodes are entity-escaped
EscapeTok(t) == IF t = "<" THEN LT ELSE IF t = ">" THEN GT
                ELSE IF t = "&" THEN AMP ELSE <<t>>
Escape(s) == Concat([i \in 1..Len(s) |-> EscapeTok(s[i])])

\* "\n".join(xs)
RECURSIVE Join(_)
Join(xs) == IF xs = <<>> THEN <<>>
            ELSE IF Len(xs) = 1 THEN xs[1]
            ELSE xs[1] \o <<"\n">> \o Join(Tail(xs))

\* the filter left out: every entry is kept
NotNoneKept(xs) == xs

\* [x for x in xs if x is not None]
NotNone(xs) == SelectSeq(xs, LAMBDA x : x # NULL)

\* f"<style>\n{css}\n</style>" and f"<script>\n{js}\n</script>"
StyleText(css) == <<"<", "style", ">", "\n">> \o css \o <<"\n", "<", "/style", ">">>
ScriptText(js) == <<"<", "script", ">", "\n">> \o js \o <<"\n", "<", "/script", ">">>

\* list.insert(position, x) as bs4 Tag.insert does it: position is clamped
InsertAt(xs, pos, x) ==
  LET p == IF pos < Len(xs) THEN pos ELSE Len(xs)
  IN  SubSeq(xs, 1, p) \o <<x>> \o SubSeq(xs, p + 1, Len(xs))

\* --------------------------------------------------------------- the inputs
\* what a worker may answer for the section named s
HtmlOf(s) == <<"<", "section", ">", "html", ToString(s), "<", "/section", ">">>
CssOf(s) == <<"css", ToString(s)>>
JsOf(s) == <<"js", ToString(s)>>
Filenames == {"a.png", "b.png"}

\* main.py:43-50  ImagePromptResponse
ImagePromptsOf(s) ==
  {<<>>} \cup {<<[prompt |-> s, filename |-> f]>> : f \in Filenames}

\* main.py:52-62  WorkerResponse
WorkerResponses(s) ==
  [html_code : {HtmlOf(s)}, css_code : {NULL, CssOf(s)},
   js_code : {NULL, JsOf(s)}, image_prompts : ImagePromptsOf(s)]

\* worker_response before the call has answered
NoResponse == [html_code |-> <<>>, css_code |-> NULL, js_code |-> NULL,
               image_prompts |-> <<>>]
\* no client chosen yet
NoClient == 0 - 1

InjSeqs(S, n) ==
  UNION {{q \in [1..m -> S] : \A a, b \in 1..m : a # b => q[a] # q[b]} : m \in 0..n}

\* tree shapes: parent[n] is an earlier node, 0 is the body element
Shapes(n) == UNION {{p \in [1..m -> 0..m] : \A a \in 1..m : p[a] < a} : m \in 0..n}

\* the head element: missing (soup.head is None), or with the children it has
MetaTag == [kind |-> "elem", str |-> <<"<", "meta", ">">>]
NoHead == [present |-> FALSE, children |-> <<>>]
Heads == {NoHead, [present |-> TRUE, children |-> <<>>],
          [present |-> TRUE, children |-> <<MetaTag>>]}

\* a parsed skeleton: node n is <div id=ids[n]> under parent[n]
Skeletons(n) ==
  {[head |-> h, parent |-> p, ids |-> [a \in 1..Len(p) |-> a]] :
     h \in Heads, p \in Shapes(n)}

\* main.py:30-41  PlanningResponse (only the fields the control flow reads)
Plans(n) == [prompts : InjSeqs(1..n, n), skeleton : Skeletons(n)]
EmptyPlan == [prompts |-> <<>>,
              skeleton |-> [head |-> NoHead, parent |-> <<>>, ids |-> <<>>]]

\* what the planning call may do: answer with a Plan, answer with text that
\* is no Plan (parsed is None), or raise
PlanOutcomes == {"plan", "unparsed", "raises"}

\* ------------------------------------------------------------ the document
\* bs4.BeautifulSoup(skeleton, "html.parser"): every node is an element
ParseSkeleton(sk) ==
  [head |-> sk.head,
   node |-> [n \in 1..Len(sk.parent) |-> "elem"],
   text |-> [n \in 1..Len(sk.parent) |-> <<>>]]

\* n is a proper descendant of a
RECURSIVE Under(_, _, _)
Under(parent, n, a) ==
  IF n = 0 THEN FALSE
  ELSE parent[n] = a \/ Under(parent, parent[n], a)

\* soup.find(id=section): the first element in document order carrying the
\* id, 0 for None
Find(sk, soup, section) ==
  LET hits == {n \in DOMAIN soup.node : soup.node[n] = "elem" /\ sk.ids[n] = section}
  IN  IF hits = {} THEN 0 ELSE CHOOSE n \in hits : \A m \in hits : n <= m

\* Tag.replace_with(str): the element and its subtree leave the tree, a text
\* node holding the string takes its place
ReplaceWith(sk, soup, n, html) ==
  [soup EXCEPT
     !.node = [m \in DOMAIN soup.node |->
                 IF m = n THEN "text"
                 ELSE IF Under(sk.parent, m, n) THEN "gone" ELSE soup.node[m]],
     !.text = [m \in DOMAIN soup.text |-> IF m = n THEN html ELSE soup.text[m]]]

\* soup.head.insert(1, str): a new text child of head
HeadInsert(soup, str) ==
  [soup EXCEPT !.head.children =
     InsertAt(soup.head.children, 1, [kind |-> "text", str |-> str])]

\* soup.prettify(): elements as markup, text nodes entity-escaped
RECURSIVE RenderNode(_, _, _)
RenderNode(sk, soup, n) ==
  IF soup.node[n] = "text" THEN Escape(soup.text[n])
  ELSE <<"<", "div", ToString(sk.ids[n]), ">">>
       \o Concat([m \in 1..Len(sk.parent) |->
                    IF sk.parent[m] = n /\ soup.node[m] # "gone"
                    THEN RenderNode(sk, soup, m) ELSE <<>>])
       \o <<"<", "/div", ">">>

RenderChild(c) == IF c.kind = "text" THEN Escape(c.str) ELSE c.str

Prettify(sk, soup) ==
  (IF soup.head.present
   THEN <<"<", "head", ">">>
        \o Concat([i \in 1..Len(soup.head.children) |->
                     RenderChild(soup.head.children[i])])
        \o <<"<", "/head", ">">>
   ELSE <<>>)
  \o <<"<", "body", ">">>
  \o Concat([m \in 1..Len(sk.parent) |->
               IF sk.parent[m] = 0 /\ soup.node[m] # "gone"
               THEN RenderNode(sk, soup, m) ELSE <<>>])
  \o <<"<", "/body", ">">>

\* ---------------------------------------------------------------- the state
VARIABLES
  pc,              \* where main() stands
  error,           \* where the exception that left main() was raised, "" for none
  worker_clients,  \* main.py:17
  plan,            \* plan_response.parsed
  soup,            \* skeleton_soup
  secState,        \* per prompt: the generate_section task
  secWorker,       \* per prompt: the client its request went to
  secResp,         \* per prompt: worker_response.parsed
  arrival,         \* prompt positions in the order their tasks finished
  results,         \* main.py:138
  j,               \* position of the assembly loop in results
  css, js,         \* main.py:140-141, later the joined strings
  collected_image_prompts,  \* main.py:139, the generate_image coroutines
  imgState,        \* per image coroutine: coroutine, scheduled, requested,
                   \* then its outcome, or cancelled
  session,         \* aiohttp_session
  static,          \* the files under static/: filename -> content
  index_html,      \* content of index.html
  docWrites,       \* how often index.html was opened for writing
  imgArrival,      \* image calls in the order their responses were handled
  passes           \* a text, and what each unescape pass made of it

vars == <<pc, error, worker_clients, plan, soup, secState, secWorker, secResp,
          arrival, results, j, css, js, collected_image_prompts, imgState,
          session, static, index_html, docWrites, imgArrival, passes>>

InitPipeline ==
  /\ pc = "plan"
  /\ error = ""
  /\ worker_clients = worker_clients_init
  /\ plan = EmptyPlan
  /\ soup = ParseSkeleton(EmptyPlan.skeleton)
  /\ secState = <<>>
  /\ secWorker = <<>>
  /\ secResp = <<>>
  /\ arrival = <<>>
  /\ results = <<>>
  /\ j = 1
  /\ css = <<>>
  /\ js = <<>>
  /\ collected_image_prompts = <<>>
  /\ imgState = <<>>
  /\ session = "none"
  /\ static = <<>>
  /\ index_html = <<>>
  /\ docWrites = 0
  /\ imgArrival = <<>>

Init == InitPipeline /\ passes = <<>>

\* an exception leaves main(): asyncio.run cancels every task still pending
\* and re-raises; coroutines never handed to gather are simply dropped
Cancelled(st) ==
  [i \in DOMAIN st |->
     IF st[i] \in {"created", "scheduled", "requested"} THEN "cancelled" ELSE st[i]]

Raise(err) ==
  /\ pc' = "aborted"
  /\ error' = err
  /\ secState' = Cancelled(secState)
  /\ imgState' = [i \in DOMAIN imgState |->
                    IF imgState[i] \in {"scheduled", "requested", "writing"}
                    THEN "cancelled" ELSE imgState[i]]

\* the section call made without its index: index keeps its default 0
selectDefault(clients, index) == clients[1]

\* main.py:75  worker_clients[index % len(worker_clients)]
select(clients, index) == clients[(index % Len(clients)) + 1]

\* ------------------------------------------------------------- the actions
\* main.py:104-137  the planning call answers with a Plan: the skeleton is
\* parsed and one generate_section coroutine is made per prompt
PlanReturns(P) ==
  /\ pc = "plan"
  /\ \E p \in P :
       /\ plan' = p
       /\ soup' = ParseSkeleton(p.skeleton)
       /\ secState' = [i \in 1..Len(p.prompts) |-> "created"]
       /\ secWorker' = [i \in 1..Len(p.prompts) |-> NoClient]
       /\ secResp' = [i \in 1..Len(p.prompts) |-> NoResponse]
  /\ pc' = "sections"
  /\ UNCHANGED <<passes, imgArrival, error, worker_clients, arrival, results, j, css, js,
                 collected_image_prompts, imgState, session, static,
                 index_html, docWrites>>

\* the planning failure is logged and the run goes on with a stock plan
FallbackPlan ==
  [prompts |-> <<1>>,
   skeleton |-> [head |-> [present |-> TRUE, children |-> <<>>],
                 parent |-> <<0>>, ids |-> <<1>>]]
PlanFailsFallback ==
  /\ pc = "plan"
  /\ \E o \in PlanOutcomes \ {"plan"} :
       error' = (IF o = "raises" THEN "plan:call" ELSE "plan:parsed")
  /\ plan' = FallbackPlan
  /\ soup' = ParseSkeleton(FallbackPlan.skeleton)
  /\ secState' = <<"created">>
  /\ secWorker' = <<NoClient>>
  /\ secResp' = <<NoResponse>>
  /\ pc' = "sections"
  /\ UNCHANGED <<passes, imgArrival, worker_clients, arrival, results, j, css, js,
                 collected_image_prompts, imgState, session, static,
                 index_html, docWrites>>

\* main.py:104 raises, or main.py:132 reads .theme_context of parsed = None
PlanFails ==
  /\ pc = "plan"
  /\ \E o \in PlanOutcomes \ {"plan"} :
       Raise(IF o = "raises" THEN "plan:call" ELSE "plan:parsed")
  /\ UNCHANGED <<passes, imgArrival, worker_clients, plan, soup, secWorker, secResp, arrival,
                 results, j, css, js, collected_image_prompts, session,
                 static, index_html, docWrites>>

\* main.py:75-76  a section task runs up to its request, under main's
\* await of gather (main.py:138)
SectionStarts(i) ==
  /\ pc = "sections"
  /\ secState[i] = "created"
  /\ secState' = [secState EXCEPT ![i] = "requested"]
  /\ secWorker' = [secWorker EXCEPT ![i] = select(worker_clients, i - 1)]
  /\ UNCHANGED <<passes, imgArrival, pc, error, worker_clients, plan, soup, secResp, arrival,
                 results, j, css, js, collected_image_prompts, imgState,
                 session, static, index_html, docWrites>>

\* main.py:100  the worker answers with a WorkerResponse, one of those that
\* answers holds for the section's name
SectionReturns(i, answers) ==
  /\ pc = "sections"
  /\ secState[i] = "requested"
  /\ \E r \in answers[plan.prompts[i]] :
       secResp' = [secResp EXCEPT ![i] = r]
  /\ secState' = [secState EXCEPT ![i] = "done"]
  /\ arrival' = Append(arrival, i)
  /\ UNCHANGED <<passes, imgArrival, pc, error, worker_clients, plan, soup, secWorker, results, j,
                 css, js, collected_image_prompts, imgState, session, static,
                 index_html, docWrites>>

\* main.py:76 raises, or main.py:100 reads .html_code of parsed = None
SectionFails(i) ==
  /\ pc = "sections"
  /\ secState[i] = "requested"
  /\ secState' = [secState EXCEPT ![i] = "failed"]
  /\ UNCHANGED <<passes, imgArrival, pc, error, worker_clients, plan, soup, secWorker, secResp,
                 arrival, results, j, css, js, collected_image_prompts,
                 imgState, session, static, index_html, docWrites>>

\* a wait that returns at the first finished task
SectionsAnyDone(st) == \E i \in DOMAIN st : st[i] = "done"

\* gather(..., return_exceptions=True): a failed task counts as finished
SectionsAllSettled(st) == \A i \in DOMAIN st : st[i] \in {"done", "failed"}

\* asyncio.gather(*tasks) hands its result to main once every task is done
SectionsAllDone(st) == \A i \in DOMAIN st : st[i] = "done"

\* the tuple generate_section returns (main.py:100)
ResultOf(i) ==
  [section |-> plan.prompts[i], html |-> secResp[i].html_code,
   css |-> secResp[i].css_code, js |-> secResp[i].js_code,
   image_prompts |-> secResp[i].image_prompts]

\* the results in the order the tasks finished in (as_completed)
GatherCompleted(order) == [i \in DOMAIN order |-> ResultOf(order[i])]

\* asyncio.gather: the results in the order of the awaitables passed in,
\* whatever the order the tasks finished in
GatherResults(order) == [i \in DOMAIN secState |-> ResultOf(i)]

\* main.py:138-142  gather returns; the lists and the session are made
SectionsBarrier ==
  /\ pc = "sections"
  /\ SectionsAllDone(secState)
  /\ results' = GatherResults(arrival)
  /\ collected_image_prompts' = <<>>
  /\ css' = <<>>
  /\ js' = <<>>
  /\ session' = "open"
  /\ j' = 1
  /\ pc' = "assemble"
  /\ UNCHANGED <<passes, imgArrival, error, worker_clients, plan, soup, secState, secWorker,
                 secResp, arrival, imgState, static, index_html, docWrites>>

\* main.py:138  gather re-raises the first exception of a section task
SectionsRaise ==
  /\ pc = "sections"
  /\ \E i \in DOMAIN secState : secState[i] = "failed"
  /\ \A i \in DOMAIN secState : secState[i] # "created"
  /\ Raise("sections")
  /\ UNCHANGED <<passes, imgArrival, worker_clients, plan, soup, secWorker, secResp, arrival,
                 results, j, css, js, collected_image_prompts, session,
                 static, index_html, docWrites>>

\* main.py:143-147  one round of the assembly loop: the image coroutines of
\* the section are made, its css and js kept, its node replaced; find
\* returning None makes .replace_with raise AttributeError
FoundOrSkipped(n) == TRUE
Found(n) == n # 0

\* prompts whose filename is already collected are dropped
ExtendNew(xs, ys) ==
  xs \o SelectSeq(ys, LAMBDA y : \A i \in DOMAIN xs : xs[i].filename # y.filename)

\* main.py:144  collected_image_prompts.extend(...): one coroutine for each
\* image prompt of the section, in order, nothing dropped
Extend(xs, ys) == xs \o ys

AssembleSection ==
  /\ pc = "assemble"
  /\ j <= Len(results)
  /\ LET r == results[j]
         n == Find(plan.skeleton, soup, r.section)
     IN  /\ collected_image_prompts' = Extend(collected_image_prompts, r.image_prompts)
         /\ imgState' = [i \in DOMAIN collected_image_prompts' |-> "coroutine"]
         /\ css' = Append(css, r.css)
         /\ js' = Append(js, r.js)
         /\ IF Found(n)
            THEN /\ soup' = ReplaceWith(plan.skeleton, soup, n, r.html)
                 /\ j' = j + 1
                 /\ UNCHANGED <<pc, error, secState>>
            ELSE /\ pc' = "aborted"
                 /\ error' = "assemble:find"
                 /\ UNCHANGED <<soup, j, secState>>
  /\ UNCHANGED <<passes, imgArrival, worker_clients, plan, secWorker, secResp, arrival, results,
                 session, static, index_html, docWrites>>

\* main.py:148  asyncio.gather(*collected_image_prompts) wraps every
\* coroutine in a task; none runs before main awaits
DispatchImages ==
  /\ pc = "assemble"
  /\ j > Len(results)
  /\ imgState' = [i \in DOMAIN imgState |-> "scheduled"]
  /\ pc' = "head"
  /\ UNCHANGED <<passes, imgArrival, error, worker_clients, plan, soup, secState, secWorker,
                 secResp, arrival, results, j, css, js,
                 collected_image_prompts, session, static, index_html,
                 docWrites>>

\* main.py:149-152  the fragments are joined and put into head; soup.head is
\* None for a skeleton without head and .insert raises AttributeError
InsertHead ==
  /\ pc = "head"
  /\ css' = Join(NotNone(css))
  /\ js' = Join(NotNone(js))
  /\ IF soup.head.present
     THEN /\ soup' = HeadInsert(HeadInsert(soup, StyleText(css')), ScriptText(js'))
          /\ pc' = "write"
          /\ UNCHANGED <<error, secState, imgState>>
     ELSE /\ Raise("head:none")
          /\ UNCHANGED soup
  /\ UNCHANGED <<passes, imgArrival, worker_clients, plan, secWorker, secResp, arrival, results, j,
                 collected_image_prompts, session, static, index_html,
                 docWrites>>

\* the document write moved behind the await of the images
WriteDocumentLate ==
  /\ pc = "write"
  /\ pc' = "images"
  /\ UNCHANGED <<passes, imgArrival, error, worker_clients, plan, soup, secState, secWorker,
                 secResp, arrival, results, j, css, js,
                 collected_image_prompts, imgState, session, static,
                 index_html, docWrites>>

\* main.py:153-156  prettify, unescape, write index.html
WriteDocument ==
  /\ pc = "write"
  /\ index_html' = Unescape(Prettify(plan.skeleton, soup))
  /\ docWrites' = docWrites + 1
  /\ pc' = "images"
  /\ UNCHANGED <<passes, imgArrival, error, worker_clients, plan, soup, secState, secWorker,
                 secResp, arrival, results, j, css, js,
                 collected_image_prompts, imgState, session, static>>

\* what the image endpoint may do with a call: answer success with a
\* payload, answer success=false, or fail (the post or json() raises, the
\* payload does not decode, the file cannot be opened)
ImageOutcomes == {"ok", "nosuccess", "error"}

\* the image service's answer to call i, and base64.decodebytes of it
EncodedImage(i) == <<"b64", i>>
Decode(e) == e[2]

\* main.py:68  if not response['success']: return
WritesFile(o) == o = "ok"

\* main.py:66  an image task runs up to its post on the shared session,
\* under main's await of the image gather (main.py:157)
ImageStarts(i) ==
  /\ pc = "images"
  /\ imgState[i] = "scheduled"
  /\ imgState' = [imgState EXCEPT ![i] = "requested"]
  /\ UNCHANGED <<passes, imgArrival, pc, error, worker_clients, plan, soup, secState, secWorker,
                 secResp, arrival, results, j, css, js,
                 collected_image_prompts, session, static, index_html,
                 docWrites>>

\* an asynchronous file library: the task is suspended while its file is open
WriteSuspendsAsync == TRUE

\* main.py:71-72  open, write and close run with no await between them
WriteSuspends == FALSE

\* open(..., "xb"): a file that exists is left as it is
WriteFileNew(files, f, data) ==
  [g \in DOMAIN files \cup {f} |-> IF g \in DOMAIN files THEN files[g] ELSE data]

\* main.py:71-72  open(f"static/{filename}", "wb") and write: the file is
\* made or overwritten
WriteFile(files, f, data) ==
  [g \in DOMAIN files \cup {f} |-> IF g = f THEN data ELSE files[g]]

\* main.py:66-72  the rest of generate_image once the endpoint has acted;
\* nothing in it catches an exception.  A task suspended inside its write
\* would hold the truncated file open until it is resumed
ImageResponds(i) ==
  /\ pc = "images"
  /\ LET f == collected_image_prompts[i].filename
     IN  \/ /\ imgState[i] = "requested"
            /\ imgArrival' = Append(imgArrival, i)
            /\ \E o \in ImageOutcomes :
                 IF o # "error" /\ WritesFile(o)
                 THEN IF WriteSuspends
                      THEN /\ imgState' = [imgState EXCEPT ![i] = "writing"]
                           /\ static' = WriteFile(static, f, 0)
                      ELSE /\ imgState' = [imgState EXCEPT ![i] = o]
                           /\ static' = WriteFile(static, f, Decode(EncodedImage(i)))
                 ELSE /\ imgState' = [imgState EXCEPT ![i] = o]
                      /\ UNCHANGED static
         \/ /\ imgState[i] = "writing"
            /\ imgState' = [imgState EXCEPT ![i] = "ok"]
            /\ static' = WriteFile(static, f, Decode(EncodedImage(i)))
            /\ UNCHANGED imgArrival
  /\ UNCHANGED <<passes, pc, error, worker_clients, plan, soup, secState, secWorker,
                 secResp, arrival, results, j, css, js,
                 collected_image_prompts, session, index_html, docWrites>>

\* the first task to return ends the wait
ImagesAnyDone(st) == \E i \in DOMAIN st : st[i] \in {"ok", "nosuccess"}

\* the image gather is done once every task has returned
ImagesAllDone(st) == \A i \in DOMAIN st : st[i] \in {"ok", "nosuccess"}

\* main.py:157  await image_generation_requests returns
ImagesBarrier ==
  /\ pc = "images"
  /\ ImagesAllDone(imgState)
  /\ pc' = "close"
  /\ UNCHANGED <<passes, imgArrival, error, worker_clients, plan, soup, secState, secWorker,
                 secResp, arrival, results, j, css, js,
                 collected_image_prompts, imgState, session, static,
                 index_html, docWrites>>

\* main.py:157  gather re-raises the first exception of an image task
ImagesRaise ==
  /\ pc = "images"
  /\ \E i \in DOMAIN imgState : imgState[i] = "error"
  /\ \A i \in DOMAIN imgState : imgState[i] # "scheduled"
  /\ Raise("images")
  /\ UNCHANGED <<passes, imgArrival, worker_clients, plan, soup, secWorker, secResp, arrival,
                 results, j, css, js, collected_image_prompts, session,
                 static, index_html, docWrites>>

\* main.py:158  the session is closed and main returns
CloseSession ==
  /\ pc = "close"
  /\ session' = "closed"
  /\ pc' = "done"
  /\ UNCHANGED <<passes, imgArrival, error, worker_clients, plan, soup, secState, secWorker,
                 secResp, arrival, results, j, css, js,
                 collected_image_prompts, imgState, static, index_html,
                 docWrites>>

Sections(answers) ==
  \E i \in DOMAIN secState :
     SectionStarts(i) \/ SectionReturns(i, answers) \/ SectionFails(i)
Images == \E i \in DOMAIN imgState : ImageStarts(i) \/ ImageResponds(i)

Next ==
  \/ PlanReturns(Plans(MaxSections))
  \/ PlanFails
  \/ Sections([s \in 1..MaxSections |-> WorkerResponses(s)])
  \/ SectionsBarrier
  \/ SectionsRaise
  \/ AssembleSection
  \/ DispatchImages
  \/ InsertHead
  \/ WriteDocument
  \/ Images
  \/ ImagesBarrier
  \/ ImagesRaise
  \/ CloseSession

Spec == Init /\ [][Next]_vars

\* The dispatch of the section calls alone, for Plans long enough to go
\* round the pool: one flat skeleton per length, and workers that answer
\* with html only
PlainResponses(s) ==
  {r \in WorkerResponses(s) :
     r.css_code = NULL /\ r.js_code = NULL /\ r.image_prompts = <<>>}

DispatchPlans ==
  {[prompts |-> [i \in 1..k |-> i],
    skeleton |-> [head |-> [present |-> TRUE, children |-> <<>>],
                  parent |-> [i \in 1..k |-> 0], ids |-> [i \in 1..k |-> i]]] :
     k \in 0..MaxDispatch}

NextDispatch ==
  \/ PlanReturns(DispatchPlans)
  \/ PlanFails
  \/ Sections([s \in 1..MaxDispatch |-> PlainResponses(s)])
  \/ SectionsBarrier
  \/ SectionsRaise

SpecDispatch == Init /\ [][NextDispatch]_vars

\* The unescape pass alone, on every text of up to MaxLen characters drawn
\* from the characters of the two entities and the two brackets
Alphabet == {"&", "l", "g", "t", ";", "<", ">"}
Texts(n) == UNION {[1..m -> Alphabet] : m \in 0..n}

InitUnescape == InitPipeline /\ passes \in {<<s>> : s \in Texts(MaxLen)}

\* main.py:154  the pass, run on what the pass before it gave
UnescapePass ==
  /\ Len(passes) \in {1, 2}
  /\ passes' = Append(passes, Unescape(passes[Len(passes)]))
  /\ UNCHANGED <<pc, error, worker_clients, plan, soup, secState, secWorker,
                 secResp, arrival, results, j, css, js,
                 collected_image_prompts, imgState, session, static,
                 index_html, docWrites, imgArrival>>

NextUnescape == UnescapePass

SpecUnescape == InitUnescape /\ [][NextUnescape]_vars

\* ------------------------------------------------------------ the claims
Range(q) == {q[i] : i \in DOMAIN q}
Contains(s, pat) ==
  \E i \in 1..(Len(s) - Len(pat) + 1) : SubSeq(s, i, i + Len(pat) - 1) = pat
CountTok(s, t) == Cardinality({i \in DOMAIN s : s[i] = t})
Terminated == pc \in {"done", "aborted"}
\* the section barrier was passed (main.py:142 ran)
PastSections == session # "none"
\* every prompt names exactly one node of the skeleton
ValidPlan(p) ==
  \A i \in DOMAIN p.prompts :
    Cardinality({n \in DOMAIN p.skeleton.ids : p.skeleton.ids[n] = p.prompts[i]}) = 1

\* C1: whatever subset of the image calls fails (success=false or an error
\* raised inside generate_image), the run ends with main returning normally
\* and every image call ran to its end: none was cancelled, and every call
\* answered with success has its file.
C1_ImageFailureIsolated ==
  (Terminated /\ docWrites = 1) =>
     /\ pc = "done"
     /\ \A i \in DOMAIN imgState :
          /\ imgState[i] \in ImageOutcomes
          /\ imgState[i] = "ok" =>
               collected_image_prompts[i].filename \in DOMAIN static

\* C2: for a valid Plan with k prompts, once the assembly loop is over it
\* has made k replacements and no element of the tree carries the name of a
\* prompt any more.
C2_AllSectionsReplaced ==
  (PastSections /\ pc # "assemble" /\ ValidPlan(plan)) =>
     /\ j = Len(plan.prompts) + 1
     /\ \A n \in DOMAIN soup.node :
          soup.node[n] = "elem" => plan.skeleton.ids[n] \notin Range(plan.prompts)

\* the scenario of C3: hero is the section named 1, footer the one named 2,
\* and the skeleton has no head element
hero == Head(<<1, 2>>)
footer == Head(Tail(<<1, 2>>))
ScenarioPlan ==
  [prompts |-> <<hero, footer>>,
   skeleton |-> [head |-> NoHead, parent |-> <<0, 0>>, ids |-> <<hero, footer>>]]
ScenarioResponses ==
  <<[html_code |-> HtmlOf(hero), css_code |-> CssOf(hero), js_code |-> NULL,
     image_prompts |-> <<>>],
    [html_code |-> HtmlOf(footer), css_code |-> NULL, js_code |-> JsOf(footer),
     image_prompts |-> <<>>]>>
ScenarioDocument(doc) ==
  /\ Contains(doc, HtmlOf(hero))
  /\ Contains(doc, HtmlOf(footer))
  /\ ~Contains(doc, <<"div", ToString(hero)>>)
  /\ ~Contains(doc, <<"div", ToString(footer)>>)
  /\ Contains(doc, StyleText(CssOf(hero)))
  /\ Contains(doc, ScriptText(JsOf(footer)))
  /\ CountTok(doc, "style") = 1
  /\ CountTok(doc, "script") = 1

\* C3: in the scenario (skeleton with body only, hero with css and footer
\* with js) the run ends with index.html written, both nodes replaced by
\* their fragments, one style block holding hero's css and one script block
\* holding footer's js.
C3_Scenario ==
  (Terminated /\ plan = ScenarioPlan /\ secResp = ScenarioResponses) =>
     docWrites = 1 /\ ScenarioDocument(index_html)

\* C4: the section call of the prompt at index i goes to client i mod p,
\* so indexes p apart share a client, whatever the order the tasks run and
\* finish in; the pool stays as built.
C4_DispatchRoundRobin ==
  /\ worker_clients = worker_clients_init
  /\ \A i \in DOMAIN secState :
       /\ secState[i] \in {"requested", "done", "failed"} => secWorker[i] # NoClient
       /\ secWorker[i] # NoClient => secWorker[i] = (i - 1) % PoolSize
       /\ \A k \in DOMAIN secState :
            (k = i + PoolSize /\ secWorker[i] # NoClient /\ secWorker[k] # NoClient)
               => secWorker[k] = secWorker[i]

C4_Witness ==
  /\ Len(secState) > PoolSize
  /\ secState[PoolSize + 1] = "done"
  /\ secState[1] = "requested"
  /\ secWorker[PoolSize + 1] = secWorker[1]

\* C5: a node of the skeleton is replaced, and an image task exists, only
\* when all k section tasks have finished; a section request and an image
\* request are never in flight together.
C5_Barriers ==
  LET sectionsDone == /\ Len(secState) = Len(plan.prompts)
                      /\ \A i \in DOMAIN secState : secState[i] = "done"
  IN  /\ (\E n \in DOMAIN soup.node : soup.node[n] # "elem") => sectionsDone
      /\ imgState # <<>> => sectionsDone
      /\ pc \in {"assemble", "head", "write", "images", "close", "done"} => sectionsDone
      /\ ~ (/\ \E i \in DOMAIN secState : secState[i] = "requested"
            /\ \E m \in DOMAIN imgState : imgState[m] = "requested")

C5_Witness ==
  /\ pc = "images"
  /\ arrival = <<2, 1>>
  /\ \E m \in DOMAIN imgState : imgState[m] = "requested"
  /\ \E n \in DOMAIN soup.node : soup.node[n] = "text"

\* the lookup of the assembly loop's current section finds no node
LookupFails ==
  /\ pc = "assemble"
  /\ j <= Len(results)
  /\ Find(plan.skeleton, soup, results[j].section) = 0

\* C6: when the name of a SectionResult has no node in the skeleton as it is
\* looked up, that step ends the run with an error and no index.html has
\* been written; nothing is written after the run has ended.
C6_LookupFailureFatal ==
  [][/\ LookupFails =>
          /\ pc' = "aborted"
          /\ error' = "assemble:find"
          /\ docWrites' = 0
          /\ index_html' = <<>>
     /\ pc = "aborted" => (pc' = "aborted" /\ docWrites' = docWrites)]_vars

C6_Witness ==
  /\ pc = "aborted"
  /\ error = "assemble:find"
  /\ docWrites = 0
  /\ j = 2
  /\ \E n \in DOMAIN soup.node : soup.node[n] = "text"

\* C7: when the planning call raises or its answer is no Plan, the run is
\* aborted with no section call and no image call issued, no session
\* opened and no file written.
C7_PlanningFailureFatal ==
  error \in {"plan:call", "plan:parsed"} =>
     /\ pc = "aborted"
     /\ secState = <<>>
     /\ imgState = <<>>
     /\ session = "none"
     /\ docWrites = 0
     /\ index_html = <<>>
     /\ DOMAIN static = {}

C7_Witness == pc = "aborted" /\ error = "plan:parsed"

\* C8: in a run that passed the section barrier, when the process exits no
\* image call is pending or cancelled: each one has written its file or
\* has failed on its own.
C8_ExitAfterImages ==
  (Terminated /\ PastSections) =>
     \A i \in DOMAIN imgState :
        imgState[i] \notin {"scheduled", "requested", "cancelled"}

\* the non-null fragments of the prompts i..k in plan order, joined
RECURSIVE InPlanOrder(_, _)
InPlanOrder(field, i) ==
  IF i > Len(secResp) THEN <<>>
  ELSE LET x == secResp[i][field]
           rest == InPlanOrder(field, i + 1)
       IN  IF x = NULL THEN rest
           ELSE IF rest = <<>> THEN x ELSE x \o <<"\n">> \o rest

\* C9: the written document holds one style block, the non-null css of the
\* sections joined in plan order, and one script block likewise for js,
\* whatever order the section tasks finished in; every replaced node holds
\* the html made for the section of its own name.
C9_BlocksInPlanOrder ==
  /\ \A n \in DOMAIN soup.node :
       soup.node[n] = "text" => soup.text[n] = HtmlOf(plan.skeleton.ids[n])
  /\ docWrites > 0 =>
       /\ Contains(index_html, StyleText(InPlanOrder("css_code", 1)))
       /\ Contains(index_html, ScriptText(InPlanOrder("js_code", 1)))
       /\ CountTok(index_html, "style") = 1
       /\ CountTok(index_html, "script") = 1

C9_Witness ==
  /\ docWrites = 1
  /\ arrival = <<2, 1>>
  /\ secResp[1].css_code # NULL
  /\ secResp[2].css_code # NULL
  /\ secResp[1].js_code = NULL
  /\ secResp[2].js_code # NULL

\* main awaits the images, or is past that await
ImagePhase == pc \in {"images", "close", "done"} \/ (pc = "aborted" /\ error = "images")

\* C10: index.html is written once, with all k sections assembled, while no
\* image call has an outcome yet, and no step of the image phase touches it,
\* whatever the image calls do; a call answered success=false has written
\* no file.
C10_ImagesNeverTouchDocument ==
  [][/\ docWrites' # docWrites =>
          \A i \in DOMAIN imgState : imgState[i] = "scheduled"
     /\ ImagePhase =>
          (index_html' = index_html /\ docWrites' = docWrites /\ soup' = soup)
     /\ ImagePhase' =>
          /\ docWrites' = 1
          /\ j' = Len(plan'.prompts) + 1
          /\ \A n \in DOMAIN soup'.node :
               soup'.node[n] = "text" => Contains(index_html', soup'.text[n])
          /\ \A i \in DOMAIN imgState' :
               imgState'[i] = "nosuccess" =>
                  \A f \in DOMAIN static' : static'[f] # i]_vars

C10_Witness ==
  /\ pc = "aborted"
  /\ error = "images"
  /\ docWrites = 1
  /\ \E i \in DOMAIN imgState : imgState[i] = "nosuccess"
  /\ \E i \in DOMAIN imgState : imgState[i] = "error"

\* C11: the unescape pass run on its own output gives that output again,
\* for every text over & l g t ; < >.
C11_UnescapeIdempotent == Len(passes) = 3 => passes[3] = passes[2]

C11_Witness ==
  /\ Len(passes) = 3
  /\ passes[2] # passes[1]
  /\ "&" \in Range(passes[2])

\* C12: when every section answers css = None and js = None, the written
\* document holds one style block and one script block, both with nothing
\* between their two line breaks, and the text None nowhere.
C12_EmptyBlocks ==
  (docWrites > 0 /\ \A i \in DOMAIN secResp :
                       secResp[i].css_code = NULL /\ secResp[i].js_code = NULL) =>
     /\ Contains(index_html, StyleText(<<>>))
     /\ Contains(index_html, ScriptText(<<>>))
     /\ CountTok(index_html, "style") = 1
     /\ CountTok(index_html, "script") = 1
     /\ "None" \notin Range(index_html)
     /\ css = <<>>
     /\ js = <<>>

C12_Witness ==
  /\ docWrites = 1
  /\ Len(secResp) = 2
  /\ \A i \in DOMAIN secResp :
       secResp[i].css_code = NULL /\ secResp[i].js_code = NULL

\* C13: once a section call has failed, no node of the skeleton is replaced,
\* no image coroutine is made, no session is opened and no index.html is
\* written, however many sibling calls answered; the run can only end
\* aborted by that failure.
C13_SectionFailureFatal ==
  (\E i \in DOMAIN secState : secState[i] = "failed") =>
     /\ pc \in {"sections", "aborted"}
     /\ pc = "aborted" => error = "sections"
     /\ \A n \in DOMAIN soup.node : soup.node[n] = "elem"
     /\ imgState = <<>>
     /\ collected_image_prompts = <<>>
     /\ session = "none"
     /\ docWrites = 0
     /\ index_html = <<>>

C13_Witness ==
  /\ pc = "aborted"
  /\ error = "sections"
  /\ \E i \in DOMAIN secState : secState[i] = "failed"
  /\ \E i \in DOMAIN secState : secState[i] = "done"

\* an image call that main is still to hear from
Pending(st) == st \in {"coroutine", "scheduled", "requested", "writing"}

\* C14: an image task posts on the session, or reads its answer, only while
\* the session is open, and the session is closed only when no image call
\* is pending any more.
C14_SessionUse ==
  [][/\ \A i \in DOMAIN imgState \cap DOMAIN imgState' :
          (imgState'[i] # imgState[i] /\
           imgState'[i] \in {"requested", "writing", "ok", "nosuccess", "error"}) =>
             (session = "open" /\ session' = "open")
     /\ session' = "closed" =>
          \A i \in DOMAIN imgState' : ~Pending(imgState'[i])]_vars

C14_Witness ==
  /\ session = "closed"
  /\ Len(imgState) = 2
  /\ imgState[1] = "ok"
  /\ imgState[2] = "nosuccess"

\* C15: a run that opened the session has closed it when it ends, also when
\* it ends by a failed lookup, a missing head or a raising image call.
C15_SessionClosedAtExit ==
  (Terminated /\ session # "none") => session = "closed"

\* the image prompts of all the section results, in plan order
RECURSIVE AllPrompts(_)
AllPrompts(rs) ==
  IF rs = <<>> THEN <<>>
  ELSE AllPrompts(SubSeq(rs, 1, Len(rs) - 1)) \o rs[Len(rs)].image_prompts

\* the section calls issued, and the image calls handed to the image gather
SectionCalls == {i \in DOMAIN secWorker : secWorker[i] # NoClient}
Dispatched == {i \in DOMAIN imgState : imgState[i] # "coroutine"}

\* C16 as stated: in every run that got a Plan, k section calls were issued
\* and as many image calls were dispatched as the section results hold
\* image prompts.
C16_OneCallPerPrompt ==
  (Terminated /\ error \notin {"plan:call", "plan:parsed"}) =>
     /\ Cardinality(SectionCalls) = Len(plan.prompts)
     /\ Cardinality(Dispatched) = Len(AllPrompts(results))

\* the assembly loop ran to its end (main.py:148 is reached)
AssemblyComplete ==
  session # "none" /\ pc # "assemble" /\ j = Len(results) + 1

\* C16, amended: a run that got a Plan of k prompts has k section tasks and
\* ends with all k calls issued, none twice; in every run whose assembly
\* loop ran to its end, the image calls dispatched are the image prompts of
\* all section results, one call each, in order, same filenames included.
C16_OneCallPerPromptAssembled ==
  /\ Len(secState) = Len(plan.prompts)
  /\ Cardinality(Range(arrival)) = Len(arrival)
  /\ (Terminated /\ error \notin {"plan:call", "plan:parsed"}) =>
        Cardinality(SectionCalls) = Len(plan.prompts)
  /\ AssemblyComplete =>
        /\ collected_image_prompts = AllPrompts(results)
        /\ Cardinality(Dispatched) = Len(AllPrompts(results))

C16_Witness ==
  /\ AssemblyComplete
  /\ pc = "images"
  /\ Len(imgState) = 2
  /\ collected_image_prompts[1].filename = collected_image_prompts[2].filename
  /\ \A i \in DOMAIN imgState : imgState[i] = "requested"

\* the image tasks that hold file f open
Writers(f) ==
  {i \in DOMAIN imgState :
     imgState[i] = "writing" /\ collected_image_prompts[i].filename = f}

\* C17: no file under static/ is held open by two image tasks at once, also
\* when two prompts name the same file; index.html is written at most once,
\* and then every section task is done, every section is assembled and the
\* style and script blocks are in the head.
C17_SingleWriter ==
  /\ \A f \in Filenames : Cardinality(Writers(f)) <= 1
  /\ docWrites <= 1
  /\ docWrites = 1 =>
       /\ SectionsAllDone(secState)
       /\ Len(secState) = Len(plan.prompts)
       /\ j = Len(plan.prompts) + 1
       /\ soup.head.present
       /\ [kind |-> "text", str |-> StyleText(css)] \in Range(soup.head.children)
       /\ [kind |-> "text", str |-> ScriptText(js)] \in Range(soup.head.children)
       /\ index_html = Unescape(Prettify(plan.skeleton, soup))

C17_Witness ==
  /\ docWrites = 1
  /\ Len(imgState) = 2
  /\ collected_image_prompts[1].filename = collected_image_prompts[2].filename
  /\ imgState[1] = "ok"
  /\ imgState[2] = "ok"

\* the calls that wrote file f, in the order their answers were handled
Wrote(f) ==
  SelectSeq(imgArrival,
            LAMBDA i : imgState[i] = "ok" /\ collected_image_prompts[i].filename = f)

RemoteFailure == error \in {"plan:call", "plan:parsed", "sections", "images"}

\* C19: a run in which every remote call returned a well-formed answer ends
\* with index.html written and main returned; main is past the section
\* barrier only with every section call returned, and past the image
\* barrier only with every image call returned.
C19_Termination ==
  /\ (Terminated /\ ~RemoteFailure) => (pc = "done" /\ docWrites = 1)
  /\ pc \in {"assemble", "head", "write", "images", "close", "done"} =>
        SectionsAllDone(secState)
  /\ pc \in {"close", "done"} => ImagesAllDone(imgState)

====
